---- MODULE Spec2Model ----
(***************************************************************************)
(* LearnNova quiz engine (src/app.py): the quizzes / quiz_questions /      *)
(* topics rows of one quiz and the request handlers that change them:      *)
(* create_quiz, record_quiz_answer, set_quiz_confidence, reset_quiz and    *)
(* get_quiz (with its backfill from the question generator).               *)
(*                                                                         *)
(* Conventions.  A nullable column is a sequence: <<>> is NULL and <<v>>   *)
(* is the value v.  A TEXT column that the code only ever tests with       *)
(* "x or ''" (user_answer, topic) holds "" for NULL.  DOUBLE PRECISION     *)
(* columns (mastery, topic difficulty) are fixed-point integers in units   *)
(* of 1/Scale.  Timestamps are minutes.  A question stem is a sequence of  *)
(* words.                                                                  *)
(***************************************************************************)
EXTENDS Integers, Sequences, FiniteSets, TLC

\* ------------------------------------------------------------------ bounds
\* original_count values a quiz is created with: 1..MaxCount.
MaxCount == 2
\* Requests and clock steps in one behaviour of Spec.
MaxSteps == 6
\* Requests and clock steps in one behaviour of SpecAnswers.
MaxAnswerSteps == 6
\* Requests in one behaviour of SpecMastery.
MaxMasterySteps == 8
\* Requests in one behaviour of SpecNormalize.
MaxNormalizeSteps == 2

\* ------------------------------------------------------------ fixed point
\* One unit of a DOUBLE PRECISION column is 1/Scale.
Scale == 30 * 1000

Min(a, b) == IF a < b THEN a ELSE b

Max(a, b) == IF a > b THEN a ELSE b

None == <<>>

Some(v) == <<v>>

IsNull(x) == x = <<>>

\* A correct answer schedules the next review this many minutes times the
\* streak ahead; the model's clock advances in steps of the same length.
StreakMinutes == 10

\* ------------------------------------------------------------------ text
\* str.lower() on one word of the vocabulary.
LowerWord(w) ==
    CASE w = "The" -> "the"
      [] w = "Fox" -> "fox"
      [] w = "Is" -> "is"
      [] OTHER -> w

\* str.lower() on a stem.
Lower(stem) == [i \in 1..Len(stem) |-> LowerWord(stem[i])]

\* Words of the vocabulary of at most two characters.
ShortWords == {"is", "it", "so", "a"}

\* _norm_tokens: lowercase, split on whitespace, keep tokens longer than 2
\* (the vocabulary holds no punctuation to strip).
NormTokens(stem) == {LowerWord(stem[i]) : i \in 1..Len(stem)} \ ShortWords

\* Token-set Jaccard similarity >= 0.5, with "union = len(..) or 1".
Similar(toks, etoks) ==
    LET u == Cardinality(toks \cup etoks)
        union == IF u = 0 THEN 1 ELSE u
    IN  2 * Cardinality(toks \cap etoks) >= union

\* ----------------------------------------------------------------- state
VARIABLES
    quiz,        \* the quizzes row
    questions,   \* the quiz_questions rows of the quiz, by id
    topicRow,    \* the topics row whose title matches the quiz's topic
    now,         \* NOW(), in minutes
    resp,        \* the response to the request just handled
    steps,       \* requests and clock steps so far
    modelReply,  \* what the language model answers to a quiz-creation prompt
    calls,       \* the record_quiz_answer requests handled statement by statement
    rounds       \* the get_quiz requests handled statement by statement

vars == <<quiz, questions, topicRow, now, resp, steps, modelReply, calls, rounds>>

\* resp is NoResp after a step that is no request of the quiz, else the
\* response with the request it answers: op and status, then for
\* get_quiz the ids returned in order (rows), practice_mode, the rows inserted
\* and the generator requests made; for record_quiz_answer the two response
\* fields; for an answer or a confidence request the request's question id,
\* answer text and raw confidence, and the confidence the row held before.

\* The topic labels of the model.
Topics == {"T"}

NoQuiz ==
    [exists |-> FALSE, original_count |-> 0, score |-> 0,
     topic_difficulty |-> [t \in Topics |-> None],
     created_at |-> 0, source_summary |-> ""]

NoResp ==
    [op |-> "none", status |-> 0, rows |-> <<>>, practice |-> FALSE,
     inserted |-> 0, requests |-> 0, correct |-> FALSE,
     score_incremented |-> FALSE,
     qid |-> 0, answer |-> "", raw_conf |-> <<>>, prev_confidence |-> <<>>]

\* The request of an answer or confidence call, its response still open.
Request(op, qid, answer, raw_conf) ==
    [NoResp EXCEPT !.op = op, !.qid = qid, !.answer = answer, !.raw_conf = raw_conf]

\* A generated question after generate_quiz_with_gemini's clean-up.
Cleaned(stem, ci, topic) ==
    [question |-> stem, options |-> <<"A", "B", "C", "D">>,
     correctIndex |-> ci, topic |-> topic]

\* What the generator returns for a new quiz.
QuizBank ==
    << Cleaned(<<"the", "quick", "brown", "fox">>, 0, "T"),
       Cleaned(<<"a", "red", "cat", "sat">>, 0, "") >>

\* The quiz_questions row create_quiz inserts (column defaults of the table).
NewRow(num, q, nextReview, lastReviewed) ==
    [question_number |-> num,
     question |-> q.question,
     options |-> q.options,
     correct_answer |-> q.options[q.correctIndex + 1],
     user_answer |-> "",
     is_correct |-> None,
     confidence |-> None,
     times_correct |-> 0,
     times_seen |-> 0,
     correct_streak |-> 0,
     max_streak |-> 0,
     mastery |-> 0,
     option_counts |-> <<>>,
     interval |-> None,
     last_reviewed |-> lastReviewed,
     next_review |-> nextReview,
     topic |-> q.topic]

\* The language model's raw answer to generate_quiz_with_gemini's two
\* prompts: the items of the first answer, and the items of the answer to
\* the retry prompt or its failure.
NoReply == [items |-> <<>>, retry |-> <<>>, retry_raised |-> FALSE]

\* The requests that may be in progress at the same time.
CallIds == {1, 2}

\* A record_quiz_answer request not yet received: pc is the handler's
\* position, prev the row it selected, row the row as its transaction sees
\* it, score_written and td_written its uncommitted writes to the quizzes
\* row, cur_val the topic difficulty it read, aborted whether a statement
\* failed inside a swallowed exception, status the response's.
NoCall ==
    [pc |-> "idle", qid |-> 0, user_answer |-> "", is_correct |-> FALSE,
     prev |-> <<>>, row |-> <<>>, score_written |-> FALSE, cur_val |-> 0,
     td_written |-> None, aborted |-> FALSE, status |-> 0]

\* A get_quiz request not yet received: pc is the handler's position, seen
\* the rows it selected (all_qs), due its capped due rows, need the rows it
\* misses, accepted the candidates it kept (new_cleaned), max_num the
\* MAX(question_number) it read, aborted whether an INSERT failed, rows and
\* status the response's.
NoRound ==
    [pc |-> "idle", seen |-> <<>>, due |-> <<>>, need |-> 0, accepted |-> <<>>,
     max_num |-> 0, aborted |-> FALSE, rows |-> <<>>, status |-> 0]

Init ==
    /\ quiz = NoQuiz
    /\ questions = <<>>
    /\ topicRow = [exists |-> FALSE, difficulty_sum |-> 0,
                   difficulty_count |-> 0, average_difficulty |-> 0]
    /\ now = 0
    /\ resp = NoResp
    /\ steps = 0
    /\ modelReply = NoReply
    /\ calls = [c \in CallIds |-> NoCall]
    /\ rounds = [c \in CallIds |-> NoRound]

\* ------------------------------------------------------------ create_quiz
\* POST /api/quiz: the generator returned the cleaned questions qs; the
\* first count of them become rows numbered by their position (one without
\* a question text is passed over) and original_count = count.
CreateQuiz(count, qs) ==
    /\ ~quiz.exists
    /\ Len(qs) > 0
    /\ LET kept == SubSeq(qs, 1, Min(count, Len(qs)))
           HasText(row) == row.question # <<>>
       IN  /\ quiz' = [exists |-> TRUE, original_count |-> count, score |-> 0,
                       topic_difficulty |-> [t \in Topics |-> None],
                       created_at |-> now, source_summary |-> "summary"]
           /\ questions' = SelectSeq([i \in 1..Len(kept) |-> NewRow(i, kept[i], None, None)],
                                     HasText)
           /\ resp' = [NoResp EXCEPT !.op = "create", !.status = 200]
    /\ UNCHANGED <<topicRow, now>>

\* POST /api/quiz when the generator returned no valid question: 500.
CreateQuizFailed(qs) ==
    /\ ~quiz.exists
    /\ Len(qs) = 0
    /\ resp' = [NoResp EXCEPT !.op = "create", !.status = 500]
    /\ UNCHANGED <<quiz, questions, topicRow, now>>

\* Saving a summary with topics inserts the topics row (column defaults:
\* average_difficulty, difficulty_count and difficulty_sum are 0).
CreateTopic ==
    /\ ~topicRow.exists
    /\ topicRow' = [exists |-> TRUE, difficulty_sum |-> 0,
                    difficulty_count |-> 0, average_difficulty |-> 0]
    /\ resp' = NoResp
    /\ UNCHANGED <<quiz, questions, now>>

\* The clock moves on.
Tick ==
    /\ now' = now + StreakMinutes
    /\ resp' = NoResp
    /\ UNCHANGED <<quiz, questions, topicRow>>

\* ---------------------------------------------------- record_quiz_answer
\* Variant of ParseConfidence that stores the integer as sent.
ParseConfidenceAsSent(raw) == raw

\* int(raw_conf) clamped to 0..5; a missing confidence stays None.
ParseConfidence(raw) ==
    IF IsNull(raw) THEN None
    ELSE Some(IF raw[1] < 0 THEN 0 ELSE IF raw[1] > 5 THEN 5 ELSE raw[1])

\* Variant of ConfToSet that writes no sentinel.
ConfToSetNoSentinel(confidence, is_correct) == confidence

\* The confidence record_quiz_answer writes: the request's, or -1 for an
\* incorrect answer sent without one, or nothing (None: column untouched).
ConfToSet(confidence, is_correct) ==
    IF IsNull(confidence) /\ ~is_correct THEN Some(-1) ELSE confidence

\* list.index: the first position of x in seq, or 0 when absent.
IndexOf(seq, x) ==
    IF \E i \in 1..Len(seq) : seq[i] = x
    THEN CHOOSE i \in 1..Len(seq) :
             /\ seq[i] = x
             /\ \A j \in 1..(i - 1) : seq[j] # x
    ELSE 0

\* option_counts after the answer: reset to zeros when its length differs
\* from the options', the selected option's count + 1; unchanged (nothing is
\* written) when the answer matches no option.
OptionCountsAfter(options, counts, user_answer) ==
    LET base == IF Len(counts) # Len(options)
                THEN [i \in 1..Len(options) |-> 0] ELSE counts
        sel == IndexOf(options, user_answer)
    IN  IF Len(options) = 0 \/ sel = 0 THEN counts
        ELSE [base EXCEPT ![sel] = base[sel] + 1]

\* "if is_correct and prev_is_correct is not True": the score goes up.
ScoreIncremented(is_correct, prev_is_correct) ==
    is_correct /\ prev_is_correct # Some(TRUE)

\* Variant of CorrectUpdate that schedules by the streak before the answer.
CorrectUpdateOldStreak(row, t) ==
    LET new_streak == row.correct_streak + 1
    IN  [row EXCEPT !.times_correct = row.times_correct + 1,
                    !.correct_streak = new_streak,
                    !.max_streak = Max(new_streak, row.max_streak),
                    !.interval = Some(StreakMinutes * row.correct_streak),
                    !.last_reviewed = Some(t),
                    !.next_review = Some(t + StreakMinutes * row.correct_streak)]

\* Variant of CorrectUpdate that leaves times_correct as it is.
CorrectUpdateNoCount(row, t) ==
    LET new_streak == row.correct_streak + 1
    IN  [row EXCEPT !.correct_streak = new_streak,
                    !.max_streak = Max(new_streak, row.max_streak),
                    !.interval = Some(StreakMinutes * new_streak),
                    !.last_reviewed = Some(t),
                    !.next_review = Some(t + StreakMinutes * new_streak)]

\* The streak, counters and schedule written for a correct answer.
CorrectUpdate(row, t) ==
    LET new_streak == row.correct_streak + 1
        new_max_streak == Max(new_streak, row.max_streak)
    IN  [row EXCEPT !.times_correct = row.times_correct + 1,
                    !.correct_streak = new_streak,
                    !.max_streak = new_max_streak,
                    !.interval = Some(StreakMinutes * new_streak),
                    !.last_reviewed = Some(t),
                    !.next_review = Some(t + StreakMinutes * new_streak)]

\* Variant of IncorrectUpdate that clears the schedule.
IncorrectUpdateUnschedules(row, t) ==
    [row EXCEPT !.correct_streak = 0,
                !.interval = Some(1),
                !.last_reviewed = Some(t),
                !.next_review = None]

\* Variant of IncorrectUpdate that makes the question due at once, scheduled
\* or not.
IncorrectUpdateAlwaysDue(row, t) ==
    [row EXCEPT !.correct_streak = 0,
                !.interval = Some(1),
                !.last_reviewed = Some(t),
                !.next_review = Some(t)]

\* The streak and schedule written for an incorrect answer: next_review is
\* set to NOW() only when it was NULL.
IncorrectUpdate(row, t) ==
    [row EXCEPT !.correct_streak = 0,
                !.max_streak = row.max_streak,
                !.interval = Some(1),
                !.last_reviewed = Some(t),
                !.next_review = IF IsNull(row.next_review) THEN Some(t)
                                ELSE row.next_review]

\* "cur_map.get(topic_key, 0.0) or 0.0" as fixed point.
MapGet(td_map, topic_key) ==
    IF IsNull(td_map[topic_key]) THEN 0 ELSE td_map[topic_key][1]

\* topic_difficulty after an incorrect answer: the topic's entry - 0.2.
DifficultyAfterIncorrect(td_map, topic_key) ==
    IF topic_key = "" THEN td_map
    ELSE [td_map EXCEPT ![topic_key] = Some(MapGet(td_map, topic_key) - Scale \div 5)]

\* POST /api/quiz/answer for question id qid with the stripped answer text
\* and the raw confidence of the request.
SubmitAnswer(qid, user_answer, raw_conf) ==
    /\ quiz.exists
    /\ IF user_answer = ""
       THEN /\ resp' = [Request("answer", qid, user_answer, raw_conf) EXCEPT !.status = 400]
            /\ UNCHANGED <<quiz, questions>>
       ELSE IF qid \notin 1..Len(questions)
       THEN /\ resp' = [Request("answer", qid, user_answer, raw_conf) EXCEPT !.status = 404]
            /\ UNCHANGED <<quiz, questions>>
       ELSE LET row == questions[qid]
                confidence == ParseConfidence(raw_conf)
                is_correct == user_answer = row.correct_answer
                conf_to_set == ConfToSet(confidence, is_correct)
                answered ==
                    [row EXCEPT
                        !.user_answer = user_answer,
                        !.is_correct = Some(is_correct),
                        !.confidence = IF IsNull(conf_to_set) THEN row.confidence
                                       ELSE conf_to_set,
                        !.option_counts =
                            OptionCountsAfter(row.options, row.option_counts, user_answer),
                        !.times_seen = row.times_seen + 1]
                incremented == ScoreIncremented(is_correct, row.is_correct)
            IN  /\ questions' =
                       [questions EXCEPT ![qid] =
                           IF is_correct THEN CorrectUpdate(answered, now)
                           ELSE IncorrectUpdate(answered, now)]
                /\ quiz' =
                       [quiz EXCEPT
                           !.score = IF incremented THEN quiz.score + 1 ELSE quiz.score,
                           !.topic_difficulty =
                               IF is_correct THEN quiz.topic_difficulty
                               ELSE DifficultyAfterIncorrect(quiz.topic_difficulty, row.topic)]
                /\ resp' = [Request("answer", qid, user_answer, raw_conf) EXCEPT
                                !.status = 200,
                                !.correct = is_correct,
                                !.score_incremented = incremented,
                                !.prev_confidence = row.confidence]
    /\ UNCHANGED <<topicRow, now>>

\* --------------------------------------------------- set_quiz_confidence
\* "request -> stored -> default 3".
EffectiveConf(confidence, stored_conf) ==
    IF ~IsNull(confidence) THEN confidence[1]
    ELSE IF ~IsNull(stored_conf) THEN stored_conf[1]
    ELSE 3

\* float_avg_conf as the fraction num/den, clamped to [0, 5]:
\* ((ts - 1) * base_avg + effective_conf) / ts when ts > 1, else
\* effective_conf, where base_avg is the stored confidence when there is one.
AvgConf(stored_conf, effective_conf, ts) ==
    LET base_avg == IF IsNull(stored_conf) THEN effective_conf ELSE stored_conf[1]
        den == IF ts > 1 THEN ts ELSE 1
        num == IF ts > 1 THEN (ts - 1) * base_avg + effective_conf
               ELSE effective_conf
    IN  [num |-> Min(Max(num, 0), 5 * den), den |-> den]

\* int(round(x)) of Python for x = f.num / f.den >= 0: half goes to even.
RoundHalfEven(f) ==
    LET q == f.num \div f.den
        r == f.num % f.den
    IN  IF 2 * r < f.den THEN q
        ELSE IF 2 * r > f.den THEN q + 1
        ELSE IF q % 2 = 0 THEN q ELSE q + 1

\* 0.3 * avg_conf_val, with avg_conf_val = float_avg_conf / 5 in [0, 1].
ConfTerm(f) == (3 * Scale * f.num) \div (50 * f.den)

\* topic_diff_val: the quiz's entry for the topic, else the topics row's
\* average_difficulty, else 1.0; at most 5.0.  No lower clamp.
TopicDiffVal(td_map, topic_key, trow) ==
    LET fromMap == IF topic_key = "" THEN 0 ELSE MapGet(td_map, topic_key)
        fromRow == IF topic_key # "" /\ fromMap = 0 /\ trow.exists
                   THEN trow.average_difficulty ELSE fromMap
        started == IF fromRow = 0 THEN Scale ELSE fromRow
    IN  Min(5 * Scale, started)

\* base_mastery = 0.5 * streak / max_streak + 0.3 * avg_conf_val
\*                + 0.2 * topic_diff_val.
BaseMastery(streak, max_streak, f, topic_diff_val) ==
    (Scale * streak) \div (2 * max_streak) + ConfTerm(f) + topic_diff_val \div 5

\* Variant of MasteryAfter without the cap.
MasteryAfterUncapped(prev_mastery, streak, max_streak, f, topic_diff_val) ==
    IF max_streak > 0
    THEN prev_mastery + BaseMastery(streak, max_streak, f, topic_diff_val)
    ELSE prev_mastery

\* mastery_val: raised by base_mastery and capped at 5.0 when max_streak > 0.
MasteryAfter(prev_mastery, streak, max_streak, f, topic_diff_val) ==
    IF max_streak > 0
    THEN Min(5 * Scale, prev_mastery + BaseMastery(streak, max_streak, f, topic_diff_val))
    ELSE prev_mastery

\* new_diff = min(5.0, topic_diff_val + 0.3 * avg_conf_val).
NewDiff(topic_diff_val, f) == Min(5 * Scale, topic_diff_val + ConfTerm(f))

\* UPDATE topics SET difficulty_sum, difficulty_count, average_difficulty.
TopicRowAfter(trow, new_diff) ==
    IF trow.exists
    THEN [trow EXCEPT !.difficulty_sum = trow.difficulty_sum + new_diff,
                      !.difficulty_count = trow.difficulty_count + 1,
                      !.average_difficulty =
                          (trow.difficulty_sum + new_diff) \div (trow.difficulty_count + 1)]
    ELSE trow

\* POST /api/quiz/confidence for question id qid with the request's raw
\* confidence.
SetConfidence(qid, raw_conf) ==
    /\ quiz.exists
    /\ IF qid \notin 1..Len(questions)
       THEN /\ resp' = [Request("confidence", qid, "", raw_conf) EXCEPT !.status = 404]
            /\ UNCHANGED <<quiz, questions, topicRow>>
       ELSE IF IsNull(questions[qid].is_correct)
       THEN /\ resp' = [Request("confidence", qid, "", raw_conf) EXCEPT !.status = 400]
            /\ UNCHANGED <<quiz, questions, topicRow>>
       ELSE LET row == questions[qid]
                effective_conf == EffectiveConf(ParseConfidence(raw_conf), row.confidence)
                f == AvgConf(row.confidence, effective_conf, row.times_seen)
                topic_diff_val == TopicDiffVal(quiz.topic_difficulty, row.topic, topicRow)
                mastery_val == MasteryAfter(row.mastery, row.correct_streak,
                                            row.max_streak, f, topic_diff_val)
                new_diff == NewDiff(topic_diff_val, f)
                writesTopic == row.is_correct = Some(TRUE) /\ row.topic # ""
            IN  /\ questions' =
                       [questions EXCEPT ![qid] =
                           [row EXCEPT !.confidence = Some(RoundHalfEven(f)),
                                       !.mastery = mastery_val]]
                /\ quiz' =
                       IF writesTopic
                       THEN [quiz EXCEPT !.topic_difficulty[row.topic] = Some(new_diff)]
                       ELSE quiz
                /\ topicRow' = IF writesTopic THEN TopicRowAfter(topicRow, new_diff)
                               ELSE topicRow
                /\ resp' = [Request("confidence", qid, "", raw_conf) EXCEPT
                                !.status = 200,
                                !.prev_confidence = row.confidence]
    /\ now' = now

\* Variant of ResetQuiz that also clears the recorded answers.
ResetQuizClearsAnswers ==
    /\ IF quiz.exists
       THEN /\ quiz' = [quiz EXCEPT !.score = 0]
            /\ questions' = [i \in 1..Len(questions) |->
                                [questions[i] EXCEPT !.user_answer = "", !.is_correct = None]]
            /\ resp' = [NoResp EXCEPT !.op = "reset", !.status = 204]
       ELSE /\ quiz' = quiz
            /\ questions' = questions
            /\ resp' = [NoResp EXCEPT !.op = "reset", !.status = 404]
    /\ UNCHANGED <<topicRow, now>>

\* -------------------------------------------------------------- reset_quiz
\* POST /api/quizzes/<id>/reset: score = 0, nothing else.
ResetQuiz ==
    /\ IF quiz.exists
       THEN /\ quiz' = [quiz EXCEPT !.score = 0]
            /\ resp' = [NoResp EXCEPT !.op = "reset", !.status = 204]
       ELSE /\ quiz' = quiz
            /\ resp' = [NoResp EXCEPT !.op = "reset", !.status = 404]
    /\ UNCHANGED <<questions, topicRow, now>>

\* ---------------------------------------------------------------- get_quiz
\* "user_answer IS NULL OR TRIM(user_answer) = ''" summed over every row of
\* the quiz.
UnansweredCount(rows) ==
    Cardinality({i \in 1..Len(rows) : rows[i].user_answer = ""})

\* orig_count: original_count, or the number of rows when it is not positive.
OrigCount(q, rows) ==
    IF q.original_count <= 0 THEN Len(rows) ELSE q.original_count

\* Variant of Completed that looks at the rows numbered 1..original_count
\* only and not at the score.
CompletedOriginalBlock(q, rows) ==
    \A i \in 1..Len(rows) :
        rows[i].question_number <= q.original_count => rows[i].user_answer # ""

\* completed: no unanswered row, or (fallback) score >= orig_count > 0.
Completed(q, rows) ==
    \/ UnansweredCount(rows) = 0
    \/ (OrigCount(q, rows) > 0 /\ q.score >= OrigCount(q, rows))

\* The ids with next_review IS NOT NULL AND next_review <= NOW().
DueIds(rows, t) ==
    {i \in 1..Len(rows) : ~IsNull(rows[i].next_review) /\ rows[i].next_review[1] <= t}

\* COALESCE(confidence, 999).
ConfKey(row) == IF IsNull(row.confidence) THEN 999 ELSE row.confidence[1]

\* Variant of NotAfter that orders by next_review alone.
NotAfterByReviewOnly(rows, i, j) ==
    rows[i].next_review[1] <= rows[j].next_review[1]

\* i may come before j under ORDER BY next_review ASC, COALESCE(confidence, 999) ASC.
NotAfter(rows, i, j) ==
    \/ rows[i].next_review[1] < rows[j].next_review[1]
    \/ /\ rows[i].next_review[1] = rows[j].next_review[1]
       /\ ConfKey(rows[i]) <= ConfKey(rows[j])

\* The results the due query may return: every ordering of the due ids that
\* the ORDER BY allows (rows equal on both keys come in any order).
RECURSIVE OrdersOf(_, _)
OrdersOf(rows, ids) ==
    IF ids = {} THEN {<<>>}
    ELSE UNION { {<<m>> \o rest : rest \in OrdersOf(rows, ids \ {m})} :
                 m \in {i \in ids : \A j \in ids : NotAfter(rows, i, j)} }

\* Variant of DueOrders that takes every scheduled row, due or not.
DueOrdersAnyScheduled(rows, t) ==
    OrdersOf(rows, {i \in 1..Len(rows) : ~IsNull(rows[i].next_review)})

DueOrders(rows, t) == OrdersOf(rows, DueIds(rows, t))

\* Variant of CapRows that returns every due row.
CapRowsOff(ids, orig_count) == ids

\* "due_rows[:orig_count]" when orig_count > 0.
CapRows(ids, orig_count) ==
    IF orig_count > 0 /\ Len(ids) > orig_count THEN SubSeq(ids, 1, orig_count)
    ELSE ids

\* The in-progress result: "question_number <= original_count ORDER BY
\* question_number ASC".
RECURSIVE SortByNumber(_, _)
SortByNumber(rows, ids) ==
    IF ids = {} THEN <<>>
    ELSE LET first == CHOOSE i \in ids :
                          \A j \in ids : rows[i].question_number <= rows[j].question_number
         IN  <<first>> \o SortByNumber(rows, ids \ {first})

OriginalBlock(q, rows) ==
    SortByNumber(rows, {i \in 1..Len(rows) : rows[i].question_number <= q.original_count})

\* Variant of Novel that compares with the stored stems only.
NovelAgainstStored(qt, rows, accepted) ==
    /\ Len(qt) > 0
    /\ \A i \in 1..Len(rows) : Lower(qt) # Lower(rows[i].question)
    /\ \A i \in 1..Len(rows) : ~Similar(NormTokens(qt), NormTokens(rows[i].question))

\* Whether the candidate stem passes the de-duplication against the stored
\* stems and the stems accepted so far in this request.
Novel(qt, rows, accepted) ==
    /\ Len(qt) > 0
    /\ \A i \in 1..Len(rows) : Lower(qt) # Lower(rows[i].question)
    /\ \A i \in 1..Len(rows) : ~Similar(NormTokens(qt), NormTokens(rows[i].question))
    /\ \A i \in 1..Len(accepted) : ~Similar(NormTokens(qt), NormTokens(accepted[i].question))

\* One pass over a generator reply: candidates are taken in order until need
\* are accepted.
RECURSIVE AcceptFrom(_, _, _, _)
AcceptFrom(cands, accepted, rows, need) ==
    IF cands = <<>> \/ Len(accepted) >= need THEN accepted
    ELSE AcceptFrom(Tail(cands),
                    IF Novel(Head(cands).question, rows, accepted)
                    THEN Append(accepted, Head(cands)) ELSE accepted,
                    rows, need)

\* What one generator request yields: nothing when it raised, else at most
\* the count asked for.
Reply(gen, asked) ==
    IF gen.raised THEN <<>> ELSE SubSeq(gen.items, 1, Min(asked, Len(gen.items)))

\* The retries allowed after the first request.
MaxRetries == 2

\* Variant of Retry that allows one retry more, the generator answering it
\* as it answered the last one.
RECURSIVE RetryOneMore(_, _, _, _, _)
RetryOneMore(gens, accepted, rows, need, attempts) ==
    IF Len(accepted) >= need \/ attempts >= MaxRetries + 1
    THEN [accepted |-> accepted, requests |-> 1 + attempts]
    ELSE LET short == need - Len(accepted)
             more == Reply(gens[Min(attempts + 2, Len(gens))], Max(short * 3, short + 2))
         IN  RetryOneMore(gens, AcceptFrom(more, accepted, rows, need), rows, need, attempts + 1)

\* The backfill's accepted candidates and the generator requests made:
\* a first request for max(2 * need, need + 2), then up to MaxRetries more
\* for max(3 * short, short + 2) while short = need - accepted > 0.
RECURSIVE Retry(_, _, _, _, _)
Retry(gens, accepted, rows, need, attempts) ==
    IF Len(accepted) >= need \/ attempts >= MaxRetries
    THEN [accepted |-> accepted, requests |-> 1 + attempts]
    ELSE LET short == need - Len(accepted)
             more == Reply(gens[attempts + 2], Max(short * 3, short + 2))
         IN  Retry(gens, AcceptFrom(more, accepted, rows, need), rows, need, attempts + 1)

Backfill(gens, rows, need) ==
    LET fresh == Reply(gens[1], Max(need * 2, need + 2))
    IN  Retry(gens, AcceptFrom(fresh, <<>>, rows, need), rows, need, 0)

\* MAX(question_number), 0 for no rows.
MaxNumber(rows) ==
    IF rows = <<>> THEN 0
    ELSE LET i == CHOOSE i \in 1..Len(rows) :
                      \A j \in 1..Len(rows) : rows[j].question_number <= rows[i].question_number
         IN  rows[i].question_number

\* Variant of InsertAccepted that leaves the new rows unscheduled.
InsertAcceptedUnscheduled(q, rows, accepted) ==
    rows \o [i \in 1..Len(accepted) |->
                NewRow(MaxNumber(rows) + i, accepted[i], None, None)]

\* The rows after inserting the accepted candidates: numbered on from
\* MAX(question_number), last_reviewed = next_review = the quiz's created_at,
\* topic = the candidate's own topic field.
InsertAccepted(q, rows, accepted) ==
    rows \o [i \in 1..Len(accepted) |->
                NewRow(MaxNumber(rows) + i, accepted[i],
                       Some(q.created_at), Some(q.created_at))]

\* GET /api/quizzes/<id>, the generator answering its requests with gens.
GetQuiz(gens) ==
    /\ IF ~quiz.exists
       THEN /\ resp' = [NoResp EXCEPT !.op = "get", !.status = 404]
            /\ questions' = questions
       ELSE LET orig_count == OrigCount(quiz, questions)
                practice_mode == Completed(quiz, questions)
            IN  \E first \in DueOrders(questions, now) :
                  LET due_rows == CapRows(first, orig_count)
                      fills == /\ practice_mode
                               /\ orig_count > 0
                               /\ Len(due_rows) < orig_count
                               /\ quiz.source_summary # ""
                      bf == IF fills
                            THEN Backfill(gens, questions, orig_count - Len(due_rows))
                            ELSE [accepted |-> <<>>, requests |-> 0]
                      after == InsertAccepted(quiz, questions, bf.accepted)
                  IN  /\ questions' = after
                      /\ \E second \in IF bf.accepted # <<>>
                                       THEN DueOrders(after, now) ELSE {first} :
                           LET refreshed == CapRows(second, orig_count)
                               rows == IF practice_mode THEN refreshed
                                       ELSE OriginalBlock(quiz, after)
                           IN  resp' = [NoResp EXCEPT
                                           !.op = "get", !.status = 200,
                                           !.rows = CapRows(rows, orig_count),
                                           !.practice = practice_mode,
                                           !.inserted = Len(bf.accepted),
                                           !.requests = bf.requests]
    /\ UNCHANGED <<quiz, topicRow, now>>

\* ----------------------------------------------- generate_quiz_with_gemini
\* str.strip() on the texts of the vocabulary.
StripText(s) ==
    CASE s = " A " -> "A"
      [] s = " " -> ""
      [] OTHER -> s

\* sanitize_katex on the texts of the vocabulary: a lone "$$" is dropped and
\* "&gt;" becomes ">".
SanitizeKatex(s) ==
    CASE s = "$$" -> ""
      [] s = "&gt;" -> ">"
      [] OTHER -> s

\* str.lower() on the answer texts of the vocabulary.
LowerText(s) ==
    CASE s = "A" -> "a"
      [] s = "B" -> "b"
      [] s = "C" -> "c"
      [] s = "D" -> "d"
      [] s = "Option 2" -> "option 2"
      [] s = "Option 9" -> "option 9"
      [] OTHER -> s

\* letters = {"a": 0, "b": 1, "c": 2, "d": 3}.
LetterIndex(low) ==
    CASE low = "a" -> Some(0)
      [] low = "b" -> Some(1)
      [] low = "c" -> Some(2)
      [] low = "d" -> Some(3)
      [] OTHER -> None

\* The number after "option " when the text starts with it.
OptionOrdinal(low) ==
    CASE low = "option 2" -> Some(2)
      [] low = "option 9" -> Some(9)
      [] OTHER -> None

\* An answer value of the raw item: an integer or a text.
IntValue(n) == [kind |-> "int", int |-> n, str |-> ""]

StrValue(t) == [kind |-> "str", int |-> 0, str |-> t]

\* to_index_from_answer: the option index an answer value stands for.
ToIndexFromAnswer(ans, options) ==
    IF IsNull(ans) THEN None
    ELSE IF ans[1].kind = "int"
    THEN IF 0 <= ans[1].int /\ ans[1].int < Len(options) THEN Some(ans[1].int) ELSE None
    ELSE LET t == StripText(ans[1].str)
             low == LowerText(t)
         IN  IF t = "" THEN None
             ELSE IF ~IsNull(LetterIndex(low)) THEN LetterIndex(low)
             ELSE IF ~IsNull(OptionOrdinal(low))
             THEN LET n == OptionOrdinal(low)[1] - 1
                  IN  IF 0 <= n /\ n < Len(options) THEN Some(n) ELSE None
             ELSE IF IndexOf(options, t) # 0 THEN Some(IndexOf(options, t) - 1)
             ELSE None

\* Variant of ResolveOptions that pads two options as it pads three.
ResolveOptionsPadsTwo(opts) ==
    LET NonEmpty(o) == o # ""
        options == SelectSeq([i \in 1..Len(opts) |-> StripText(opts[i])], NonEmpty)
    IN  IF Len(options) >= 4 THEN Some(SubSeq(options, 1, 4))
        ELSE IF Len(options) >= 2 THEN Some(Append(options, "None of the above"))
        ELSE None

\* The options of a raw item: trimmed, the empty ones dropped, then the first
\* 4, or 3 and "None of the above"; None when fewer than 3 remain.
ResolveOptions(opts) ==
    LET NonEmpty(o) == o # ""
        options == SelectSeq([i \in 1..Len(opts) |-> StripText(opts[i])], NonEmpty)
    IN  IF Len(options) >= 4 THEN Some(SubSeq(options, 1, 4))
        ELSE IF Len(options) = 3 THEN Some(Append(options, "None of the above"))
        ELSE None

\* ci: correctIndex when it is an integer, else answerIndex, else the index
\* of answer, then of correct; when that is no integer in 0..3, the index of
\* correctOption; None when that is no integer in 0..3 either.
ResolveCorrectIndex(q, options) ==
    LET InRange(c) == ~IsNull(c) /\ 0 <= c[1] /\ c[1] <= 3
        first == IF ~IsNull(q.correctIndex) THEN q.correctIndex
                 ELSE IF ~IsNull(q.answerIndex) THEN q.answerIndex
                 ELSE ToIndexFromAnswer(q.answer, options)
        second == IF ~IsNull(first) THEN first ELSE ToIndexFromAnswer(q.correct, options)
        third == IF InRange(second) THEN second
                 ELSE ToIndexFromAnswer(q.correctOption, options)
    IN  IF InRange(third) THEN third ELSE None

\* str.strip() on a stem: the whitespace words around it go.
StripStem(stem) ==
    LET Inked(w) == w # " "
    IN  SelectSeq(stem, Inked)

\* sanitize_katex on a stem: the words it empties go.
SanitizeStem(stem) ==
    LET Left(w) == w # ""
    IN  SelectSeq([i \in 1..Len(stem) |-> SanitizeKatex(stem[i])], Left)

\* One raw item cleaned: None when it is dropped, else the cleaned item.
CleanItem(q, withTopic) ==
    LET question == StripStem(q.question)
        resolved == ResolveOptions(q.options)
    IN  IF IsNull(resolved) THEN None
        ELSE LET options == resolved[1]
                 ci == ResolveCorrectIndex(q, options)
             IN  IF IsNull(ci) THEN None
                 ELSE IF question = <<>> \/ \E i \in 1..Len(options) : options[i] = ""
                 THEN None
                 ELSE Some([question |-> SanitizeStem(question),
                            options |-> [i \in 1..Len(options) |-> SanitizeKatex(options[i])],
                            correctIndex |-> ci[1],
                            topic |-> IF withTopic THEN StripText(q.topic) ELSE ""])

\* The normalizer loop: raw items are cleaned in order until count are kept.
RECURSIVE CleanAll(_, _, _, _)
CleanAll(items, cleaned, count, withTopic) ==
    IF items = <<>> \/ Len(cleaned) >= count THEN cleaned
    ELSE CleanAll(Tail(items),
                  cleaned \o CleanItem(Head(items), withTopic),
                  count, withTopic)

\* generate_quiz_with_gemini: the cleaned items of the first answer, or,
\* when there are none, of the answer to the retry prompt (none when that
\* request failed; these carry no topic).
GenerateQuiz(r, count) ==
    LET cleaned == CleanAll(r.items, <<>>, count, TRUE)
    IN  IF cleaned # <<>> THEN cleaned
        ELSE IF r.retry_raised THEN <<>>
        ELSE CleanAll(r.retry, <<>>, count, FALSE)

\* ------------------------------- record_quiz_answer, statement by statement
\* Each request runs on a connection of its own, in one transaction that
\* ends with the handler's commit or rollback (READ COMMITTED: a statement
\* sees what was committed before it and its transaction's own writes; an
\* UPDATE of the quizzes row waits for another transaction's uncommitted
\* UPDATE of that row).

\* No other request holds an uncommitted write of the quizzes row.
QuizRowFree(c) ==
    \A d \in CallIds \ {c} :
        calls[d].pc \in {"idle", "done"}
            \/ (~calls[d].score_written /\ IsNull(calls[d].td_written))

\* No other request holds an uncommitted write of the quiz_questions row.
RowFree(c) ==
    \A d \in CallIds \ {c} :
        calls[d].qid # calls[c].qid \/ calls[d].pc \in {"idle", "selected", "done"}

\* The request is received and the row selected (qrow).
SelectRow(c, qid, user_answer) ==
    /\ calls[c].pc = "idle"
    /\ quiz.exists
    /\ qid \in 1..Len(questions)
    /\ calls' = [calls EXCEPT ![c] =
           [NoCall EXCEPT
               !.pc = "selected", !.qid = qid, !.user_answer = user_answer,
               !.is_correct = user_answer = questions[qid].correct_answer,
               !.prev = questions[qid]]]
    /\ UNCHANGED <<quiz, questions, topicRow, now, resp, steps, modelReply, rounds>>

\* The answer is recorded (user_answer, is_correct, confidence, and
\* option_counts from the counts selected), uncommitted: the UPDATE waits
\* while another request's write of the row is uncommitted and then works
\* on the row as committed.
RecordAnswer(c) ==
    /\ calls[c].pc = "selected"
    /\ RowFree(c)
    /\ LET row == questions[calls[c].qid]
           prev == calls[c].prev
           conf_to_set == ConfToSet(ParseConfidence(None), calls[c].is_correct)
       IN  calls' = [calls EXCEPT
               ![c].pc = "recorded",
               ![c].row = [row EXCEPT
                   !.user_answer = calls[c].user_answer,
                   !.is_correct = Some(calls[c].is_correct),
                   !.confidence = IF IsNull(conf_to_set) THEN row.confidence
                                  ELSE conf_to_set,
                   !.option_counts =
                       IF OptionCountsAfter(prev.options, prev.option_counts,
                                            calls[c].user_answer) = prev.option_counts
                       THEN row.option_counts
                       ELSE OptionCountsAfter(prev.options, prev.option_counts,
                                              calls[c].user_answer)]]
    /\ UNCHANGED <<quiz, questions, topicRow, now, resp, steps, modelReply, rounds>>

\* UPDATE quiz_questions SET times_seen = COALESCE(times_seen, 0) + 1.
CountSeen(c) ==
    /\ calls[c].pc = "recorded"
    /\ calls' = [calls EXCEPT ![c].pc = "counted",
                              ![c].row.times_seen = calls[c].row.times_seen + 1]
    /\ UNCHANGED <<quiz, questions, topicRow, now, resp, steps, modelReply, rounds>>

\* UPDATE quizzes SET score = COALESCE(score, 0) + 1 for a newly correct
\* answer: it waits while another request's write of the quizzes row is
\* uncommitted.
WriteScore(c) ==
    /\ calls[c].pc = "counted"
    /\ LET incremented == ScoreIncremented(calls[c].is_correct, calls[c].prev.is_correct)
       IN  /\ incremented => QuizRowFree(c)
           /\ calls' = [calls EXCEPT ![c].pc = "scored",
                                     ![c].score_written = incremented]
    /\ UNCHANGED <<quiz, questions, topicRow, now, resp, steps, modelReply, rounds>>

\* The streak and schedule UPDATE of the row, computed from the streaks
\* and the next_review selected at the start of the request.
WriteStreak(c) ==
    /\ calls[c].pc = "scored"
    /\ LET prev == calls[c].prev
           seen == [calls[c].row EXCEPT
                       !.correct_streak = prev.correct_streak,
                       !.max_streak = prev.max_streak,
                       !.next_review = IF IsNull(prev.next_review) THEN None
                                       ELSE calls[c].row.next_review]
       IN  calls' = [calls EXCEPT
               ![c].pc = IF ~calls[c].is_correct /\ calls[c].row.topic # ""
                         THEN "streaked" ELSE "ready",
               ![c].row = IF calls[c].is_correct THEN CorrectUpdate(seen, now)
                          ELSE IncorrectUpdate(seen, now)]
    /\ UNCHANGED <<quiz, questions, topicRow, now, resp, steps, modelReply, rounds>>

\* SELECT topic_difficulty FROM quizzes, of an incorrect answer with a topic.
ReadDifficulty(c) ==
    /\ calls[c].pc = "streaked"
    /\ calls' = [calls EXCEPT
           ![c].pc = "read",
           ![c].cur_val = MapGet(quiz.topic_difficulty, calls[c].row.topic)]
    /\ UNCHANGED <<quiz, questions, topicRow, now, resp, steps, modelReply, rounds>>

\* UPDATE quizzes SET topic_difficulty = ... || {topic_key: cur_val - 0.2}.
WriteDifficulty(c) ==
    /\ calls[c].pc = "read"
    /\ QuizRowFree(c)
    /\ calls' = [calls EXCEPT ![c].pc = "ready",
                              ![c].td_written = Some(calls[c].cur_val - Scale \div 5)]
    /\ UNCHANGED <<quiz, questions, topicRow, now, resp, steps, modelReply, rounds>>

\* The response of a finished request.
CallResponse(c, status) ==
    [Request("answer", calls[c].qid, calls[c].user_answer, None) EXCEPT
        !.status = status,
        !.correct = calls[c].is_correct,
        !.score_incremented = calls[c].score_written,
        !.prev_confidence = calls[c].prev.confidence]

\* conn.commit() and the 200 response: the transaction's writes become
\* visible; the commit of a transaction in which a statement failed
\* discards them.
Commit(c) ==
    /\ calls[c].pc = "ready"
    /\ calls' = [calls EXCEPT ![c].pc = "done", ![c].status = 200]
    /\ resp' = CallResponse(c, 200)
    /\ IF calls[c].aborted
       THEN UNCHANGED <<quiz, questions>>
       ELSE /\ questions' = [questions EXCEPT ![calls[c].qid] = calls[c].row]
            /\ quiz' = [quiz EXCEPT
                   !.score = IF calls[c].score_written THEN quiz.score + 1
                             ELSE quiz.score,
                   !.topic_difficulty =
                       IF IsNull(calls[c].td_written) THEN quiz.topic_difficulty
                       ELSE [quiz.topic_difficulty EXCEPT
                                ![calls[c].row.topic] = calls[c].td_written]]
    /\ UNCHANGED <<topicRow, now, steps, modelReply, rounds>>

\* The times_seen, score or streak statement raises: the handler's except
\* clause rolls the transaction back and answers 500.
StatementFails(c) ==
    /\ calls[c].pc \in {"recorded", "counted", "scored"}
    /\ calls' = [calls EXCEPT ![c].pc = "done", ![c].status = 500,
                              ![c].score_written = FALSE]
    /\ resp' = [CallResponse(c, 500) EXCEPT !.score_incremented = FALSE]
    /\ UNCHANGED <<quiz, questions, topicRow, now, steps, modelReply, rounds>>

\* The SELECT or UPDATE of topic_difficulty raises: the exception is
\* swallowed, and the transaction stays failed until it ends.
DifficultyStatementFails(c) ==
    /\ calls[c].pc \in {"streaked", "read"}
    /\ calls' = [calls EXCEPT ![c].pc = "ready", ![c].aborted = TRUE]
    /\ UNCHANGED <<quiz, questions, topicRow, now, resp, steps, modelReply, rounds>>

\* ------------------------------------------- get_quiz, statement by statement
\* Each request runs on a connection of its own; its INSERTs are committed
\* together.  UNIQUE (quiz_id, question_number): an INSERT of a number that
\* another request has inserted waits for that request's commit and then
\* fails, which leaves the transaction failed until it ends.

\* The quiz, the unanswered count and the due rows are selected: the
\* request is for a complete quiz that misses need > 0 due rows.
ReadRound(c) ==
    /\ rounds[c].pc = "idle"
    /\ quiz.exists
    /\ Completed(quiz, questions)
    /\ quiz.source_summary # ""
    /\ \E first \in DueOrders(questions, now) :
         LET orig_count == OrigCount(quiz, questions)
             due_rows == CapRows(first, orig_count)
         IN  /\ orig_count > 0
             /\ Len(due_rows) < orig_count
             /\ rounds' = [rounds EXCEPT ![c] =
                    [NoRound EXCEPT !.pc = "read", !.seen = questions,
                                    !.due = due_rows,
                                    !.need = orig_count - Len(due_rows)]]
    /\ UNCHANGED <<quiz, questions, topicRow, now, resp, steps, modelReply, calls>>

\* The generator is asked and its candidates are filtered against the rows
\* selected; with none accepted the request answers with its due rows.
GenerateRound(c, gens) ==
    /\ rounds[c].pc = "read"
    /\ LET bf == Backfill(gens, rounds[c].seen, rounds[c].need)
       IN  rounds' = [rounds EXCEPT
               ![c].accepted = bf.accepted,
               ![c].pc = IF bf.accepted = <<>> THEN "done" ELSE "generated",
               ![c].rows = IF bf.accepted = <<>> THEN rounds[c].due ELSE <<>>,
               ![c].status = IF bf.accepted = <<>> THEN 200 ELSE 0]
    /\ UNCHANGED <<quiz, questions, topicRow, now, resp, steps, modelReply, calls>>

\* SELECT COALESCE(MAX(question_number), 0).
ReadMaxNumber(c) ==
    /\ rounds[c].pc = "generated"
    /\ rounds' = [rounds EXCEPT ![c].pc = "numbered",
                                ![c].max_num = MaxNumber(questions)]
    /\ UNCHANGED <<quiz, questions, topicRow, now, resp, steps, modelReply, calls>>

\* The INSERTs, numbered on from max_num: they wait for another request's
\* uncommitted INSERTs and fail when a number is taken.
InsertRows(c) ==
    /\ rounds[c].pc = "numbered"
    /\ \A d \in CallIds \ {c} : rounds[d].pc # "inserted"
    /\ rounds' = [rounds EXCEPT ![c].pc = "inserted",
                                ![c].aborted = MaxNumber(questions) > rounds[c].max_num]
    /\ UNCHANGED <<quiz, questions, topicRow, now, resp, steps, modelReply, calls>>

\* conn.commit(), the refreshed due query and the 200 response.
CommitRound(c) ==
    /\ rounds[c].pc = "inserted"
    /\ LET after == IF rounds[c].aborted THEN questions
                    ELSE InsertAccepted(quiz, questions, rounds[c].accepted)
       IN  /\ questions' = after
           /\ \E second \in DueOrders(after, now) :
                LET rows == CapRows(second, OrigCount(quiz, after))
                IN  /\ rounds' = [rounds EXCEPT ![c].pc = "done", ![c].rows = rows,
                                                ![c].status = 200]
                    /\ resp' = [NoResp EXCEPT
                                   !.op = "get", !.status = 200, !.rows = rows,
                                   !.practice = TRUE,
                                   !.inserted = IF rounds[c].aborted THEN 0
                                                ELSE Len(rounds[c].accepted)]
    /\ UNCHANGED <<quiz, topicRow, now, steps, modelReply, calls>>

\* ------------------------------------------------------- specifications
\* One more request or clock step, of at most max; the language model's
\* answer is what it is.
Step(max) ==
    /\ steps < max
    /\ steps' = steps + 1
    /\ modelReply' = modelReply
    /\ calls' = calls
    /\ rounds' = rounds

\* Candidates the generator returns for a backfill: two new stems, a near
\* copy of the first stored stem and a copy of it in another case, and a
\* new stem of short words only, in two cases.
NewSky == Cleaned(<<"big", "blue", "sky", "now">>, 1, "T")

NewCoin == Cleaned(<<"old", "gold", "coin", "lost">>, 0, "")

NearFox == Cleaned(<<"the", "quick", "brown", "dog">>, 0, "T")

CaseFox == Cleaned(<<"The", "quick", "brown", "Fox">>, 0, "T")

ShortAsk == Cleaned(<<"is", "it", "so">>, 0, "T")

ShortAskCase == Cleaned(<<"Is", "it", "so">>, 0, "T")

\* What the generator does on one request: fail, or return candidates.
Raises == [raised |-> TRUE, items |-> <<>>]

Returns(items) == [raised |-> FALSE, items |-> items]

\* What the generator does on the first request and the two retries.
GenScripts ==
    { <<Raises, Raises, Raises>>,
      <<Returns(<<CaseFox, NearFox>>), Returns(<<>>), Returns(<<NearFox, NewSky>>)>>,
      <<Returns(<<NewSky, NewSky, NewCoin>>), Raises, Raises>>,
      <<Returns(<<NearFox, NewCoin>>), Returns(<<NewCoin, NewSky>>), Raises>>,
      <<Returns(<<ShortAsk, ShortAskCase>>), Returns(<<ShortAsk>>), Raises>> }

\* --- Spec: a quiz is created, answered, rated, reset and fetched, the
\* generator topping up the practice rounds.
RoundCreate ==
    \E count \in 1..MaxCount, k \in 1..Len(QuizBank) :
        Step(MaxSteps) /\ CreateQuiz(count, SubSeq(QuizBank, 1, k))

RoundSubmit ==
    \E qid \in 1..Len(questions), a \in {"A", "B"} :
        Step(MaxSteps) /\ SubmitAnswer(qid, a, None)

RoundConfidence ==
    \E qid \in 1..Len(questions) :
        Step(MaxSteps) /\ SetConfidence(qid, Some(4))

RoundReset == Step(MaxSteps) /\ ResetQuiz

RoundGet ==
    \E gens \in GenScripts : Step(MaxSteps) /\ quiz.exists /\ GetQuiz(gens)

RoundTick == Step(MaxSteps) /\ quiz.exists /\ Tick

Next ==
    RoundCreate \/ RoundSubmit \/ RoundConfidence \/ RoundReset \/ RoundGet \/ RoundTick

Spec == Init /\ [][Next]_vars

\* --- SpecAnswers: one question answered and rated, with every kind of
\* request: valid, out of range, unknown question, empty answer.
\* Answer texts of a request: the correct option, another option, a text
\* that is no option, and the empty text.
AnswerTexts == {"A", "B", "Z", ""}

\* Raw confidences of a request: none, below range, in range, above range.
RawConfs == {None, Some(-2), Some(3), Some(7)}

\* Question ids of a request: the rows' and one unknown id.
RequestIds == 1..(Len(questions) + 1)

AnswersCreate == Step(MaxAnswerSteps) /\ CreateQuiz(1, SubSeq(QuizBank, 1, 1))

AnswersTopic == Step(MaxAnswerSteps) /\ ~quiz.exists /\ CreateTopic

AnswersSubmit ==
    \E qid \in RequestIds, a \in AnswerTexts, c \in RawConfs :
        Step(MaxAnswerSteps) /\ SubmitAnswer(qid, a, c)

AnswersConfidence ==
    \E qid \in RequestIds, c \in RawConfs :
        Step(MaxAnswerSteps) /\ SetConfidence(qid, c)

AnswersTick == Step(MaxAnswerSteps) /\ quiz.exists /\ Tick

NextAnswers ==
    AnswersCreate \/ AnswersTopic \/ AnswersSubmit \/ AnswersConfidence \/ AnswersTick

SpecAnswers == Init /\ [][NextAnswers]_vars

\* --- SpecMastery: one question answered and then rated again and again.
MasteryCreate == Step(MaxMasterySteps) /\ CreateQuiz(1, SubSeq(QuizBank, 1, 1))

MasteryTopic == Step(MaxMasterySteps) /\ ~quiz.exists /\ CreateTopic

MasterySubmit ==
    \E a \in {"A", "B"} :
        Step(MaxMasterySteps) /\ quiz.exists /\ SubmitAnswer(1, a, None)

MasteryConfidence ==
    \E c \in {None, Some(-2), Some(7)} :
        Step(MaxMasterySteps) /\ quiz.exists /\ SetConfidence(1, c)

NextMastery == MasteryCreate \/ MasteryTopic \/ MasterySubmit \/ MasteryConfidence

SpecMastery == Init /\ [][NextMastery]_vars

\* --- SpecNormalize: a quiz is created from what the language model
\* answered, whatever that is.
\* A raw item with its correct option given as correctIndex (or not at all).
Raw(stem, opts, ci) ==
    [question |-> stem, options |-> opts, correctIndex |-> ci,
     answerIndex |-> None, answer |-> None, correct |-> None,
     correctOption |-> None, topic |-> "T"]

\* Raw option lists: four, five, three, two, padded and empty texts among
\* five, a repeated option, the filler among three, a lone "$$".
RawOptionLists ==
    { <<"A", "B", "C", "D">>,
      <<"A", "B", "C", "D", "E">>,
      <<"A", "B", "C">>,
      <<"A", "B">>,
      <<" A ", "", "B", " ", "C">>,
      <<"A", "A", "B", "C">>,
      <<"A", "B", "None of the above">>,
      <<"$$", "B", "C", "D">> }

SkyStem == <<"big", "blue", "sky", "now">>

CoinStem == <<"old", "gold", "coin", "lost">>

\* Raw items that differ in how they name the correct option.
RawAnswerForms ==
    LET none == Raw(CoinStem, <<"A", "B", "C", "D">>, None)
    IN  { Raw(CoinStem, <<"A", "B", "C", "D">>, Some(3)),
          [Raw(CoinStem, <<"A", "B", "C", "D">>, Some(7)) EXCEPT
              !.correctOption = Some(StrValue("B"))],
          [none EXCEPT !.answer = Some(StrValue("Option 2"))],
          [none EXCEPT !.answer = Some(StrValue("Option 9"))],
          [none EXCEPT !.answer = Some(IntValue(2))],
          [none EXCEPT !.answerIndex = Some(9)],
          [Raw(CoinStem, <<"A", "B", "C", "D">>, Some(7)) EXCEPT
              !.answerIndex = Some(1)],
          [none EXCEPT !.correct = Some(StrValue(" A "))],
          [Raw(CoinStem, <<"A", "B", "C">>, None) EXCEPT
              !.answer = Some(StrValue("None of the above"))],
          none }

\* Raw items that differ in their stem: blank, a lone "$$", padded.
RawStemForms ==
    { Raw(<<" ">>, <<"A", "B", "C", "D">>, Some(0)),
      Raw(<<"$$">>, <<"A", "B", "C", "D">>, Some(1)),
      Raw(<<" ", "a", "red", "cat", "sat", " ">>, <<"A", "B", "C", "D">>, Some(2)) }

RawItems ==
    {Raw(SkyStem, opts, Some(0)) : opts \in RawOptionLists}
        \cup RawAnswerForms \cup RawStemForms

\* What the language model answers: one or two raw items, and to the retry
\* prompt a failure, nothing or one item.
RawReplies ==
    [items : {<<a>> : a \in RawItems} \cup {<<a, b>> : a \in RawItems, b \in RawItems},
     retry : {<<>>},
     retry_raised : BOOLEAN]
        \cup [items : {<<a>> : a \in RawItems},
              retry : {<<Raw(SkyStem, <<"A", "B", "C">>, Some(1))>>},
              retry_raised : {FALSE}]

InitNormalize ==
    /\ quiz = NoQuiz
    /\ questions = <<>>
    /\ topicRow = [exists |-> FALSE, difficulty_sum |-> 0,
                   difficulty_count |-> 0, average_difficulty |-> 0]
    /\ now = 0
    /\ resp = NoResp
    /\ steps = 0
    /\ modelReply \in RawReplies
    /\ calls = [c \in CallIds |-> NoCall]
    /\ rounds = [c \in CallIds |-> NoRound]

NormalizeCreate ==
    \E count \in 1..MaxCount :
        Step(MaxNormalizeSteps) /\ CreateQuiz(count, GenerateQuiz(modelReply, count))

NormalizeCreateFailed ==
    \E count \in 1..MaxCount :
        Step(MaxNormalizeSteps) /\ CreateQuizFailed(GenerateQuiz(modelReply, count))

NextNormalize == NormalizeCreate \/ NormalizeCreateFailed

SpecNormalize == InitNormalize /\ [][NextNormalize]_vars

\* --- SpecConcurrent: a quiz of two questions on one topic, and two answer
\* requests for different questions handled at the same time, statements
\* failing or not.
ConcurrentCreate ==
    /\ CreateQuiz(2, <<QuizBank[1], NewSky>>)
    /\ UNCHANGED <<steps, modelReply, calls, rounds>>

ConcurrentSelect ==
    \E c \in CallIds, qid \in 1..Len(questions), user_answer \in {"A", "B"} :
        /\ \A d \in CallIds \ {c} : calls[d].qid # qid
        /\ SelectRow(c, qid, user_answer)

ConcurrentRecord == \E c \in CallIds : RecordAnswer(c)

ConcurrentCount == \E c \in CallIds : CountSeen(c)

ConcurrentScore == \E c \in CallIds : WriteScore(c)

ConcurrentStreak == \E c \in CallIds : WriteStreak(c)

ConcurrentRead == \E c \in CallIds : ReadDifficulty(c)

ConcurrentWrite == \E c \in CallIds : WriteDifficulty(c)

ConcurrentCommit == \E c \in CallIds : Commit(c)

ConcurrentFails == \E c \in CallIds : StatementFails(c)

ConcurrentDifficultyFails == \E c \in CallIds : DifficultyStatementFails(c)

NextConcurrent ==
    \/ ConcurrentCreate \/ ConcurrentSelect \/ ConcurrentRecord \/ ConcurrentCount
    \/ ConcurrentScore \/ ConcurrentStreak \/ ConcurrentRead
    \/ ConcurrentWrite \/ ConcurrentCommit \/ ConcurrentFails
    \/ ConcurrentDifficultyFails

SpecConcurrent == Init /\ [][NextConcurrent]_vars

\* --- SpecSameItem: two answer requests for the same question handled at
\* the same time.
SameItemSelect ==
    \E c \in CallIds, qid \in 1..Len(questions), user_answer \in {"A", "B"} :
        /\ \A d \in CallIds \ {c} : calls[d].pc # "idle" => calls[d].qid = qid
        /\ SelectRow(c, qid, user_answer)

NextSameItem ==
    \/ ConcurrentCreate \/ SameItemSelect \/ ConcurrentRecord \/ ConcurrentCount
    \/ ConcurrentScore \/ ConcurrentStreak \/ ConcurrentRead
    \/ ConcurrentWrite \/ ConcurrentCommit

SpecSameItem == Init /\ [][NextSameItem]_vars

\* --- SpecRounds: a quiz is created and answered, then two get_quiz
\* requests for it are handled at the same time.
RoundsCreate ==
    /\ \E count \in 1..2 : CreateQuiz(count, SubSeq(QuizBank, 1, count))
    /\ UNCHANGED <<steps, modelReply, calls, rounds>>

RoundsSubmit ==
    /\ \A c \in CallIds : rounds[c].pc = "idle"
    /\ \E qid \in 1..Len(questions), a \in {"A", "B"} :
         /\ questions[qid].user_answer = ""
         /\ SubmitAnswer(qid, a, None)
    /\ UNCHANGED <<steps, modelReply, calls, rounds>>

RoundsRead == \E c \in CallIds : ReadRound(c)

RoundsGenerate == \E c \in CallIds, gens \in GenScripts : GenerateRound(c, gens)

RoundsNumber == \E c \in CallIds : ReadMaxNumber(c)

RoundsInsert == \E c \in CallIds : InsertRows(c)

RoundsCommit == \E c \in CallIds : CommitRound(c)

NextRounds ==
    \/ RoundsCreate \/ RoundsSubmit \/ RoundsRead \/ RoundsGenerate
    \/ RoundsNumber \/ RoundsInsert \/ RoundsCommit

SpecRounds == Init /\ [][NextRounds]_vars

\* ------------------------------------------------------------ properties
\* C1 (Spec): every get_quiz response for a quiz with original_count = N > 0
\* holds at most N rows, whatever creations, answers, confidence updates,
\* resets, clock steps and backfilling fetches came before.
C1_RoundAtMostOriginalCount ==
    (resp.op = "get" /\ resp.status = 200 /\ quiz.original_count > 0)
        => Len(resp.rows) <= quiz.original_count

\* A practice round of a quiz that holds backfilled rows, with more rows due
\* than original_count and exactly original_count of them returned.
C1_CappedRoundAfterBackfill ==
    /\ resp.op = "get" /\ resp.status = 200 /\ resp.practice
    /\ \E i \in 1..Len(questions) : questions[i].question_number > quiz.original_count
    /\ Cardinality(DueIds(questions, now)) > quiz.original_count
    /\ Len(resp.rows) = quiz.original_count

\* C2 (SpecAnswers, which has no reset): the score equals the number of
\* questions answered correctly at least once.
C2_ScoreCountsQuestionsOnce ==
    quiz.exists =>
        quiz.score = Cardinality({i \in 1..Len(questions) : questions[i].times_correct > 0})

\* C3 (SpecAnswers): a correct answer on a question with streak s writes
\* correct_streak = s + 1, max_streak = max(max_streak, s + 1),
\* last_reviewed = now and next_review = now + 10 * (s + 1) minutes, whatever
\* next_review was.
C3_CorrectAnswerSchedulesByStreak ==
    [][(resp'.op = "answer" /\ resp'.status = 200 /\ resp'.correct) =>
        LET before == questions[resp'.qid]
            after == questions'[resp'.qid]
            s == before.correct_streak
        IN  /\ after.correct_streak = s + 1
            /\ after.max_streak = (IF before.max_streak > s + 1 THEN before.max_streak ELSE s + 1)
            /\ after.last_reviewed = <<now'>>
            /\ after.next_review = <<now' + 10 * (s + 1)>>]_vars

\* A third correct answer in a row, given after the clock has moved: the
\* next review is 30 minutes after last_reviewed.
C3_StreakOfThree ==
    /\ resp.op = "answer" /\ resp.status = 200 /\ resp.correct
    /\ now > 0
    /\ questions[resp.qid].correct_streak = 3
    /\ questions[resp.qid].max_streak = 3
    /\ questions[resp.qid].last_reviewed = <<now>>
    /\ questions[resp.qid].next_review = <<now + 30>>

\* C4 (SpecAnswers): an incorrect answer writes correct_streak = 0 and leaves
\* max_streak as it was; next_review becomes now when it was NULL and keeps
\* its value otherwise.
C4_IncorrectAnswerKeepsSchedule ==
    [][(resp'.op = "answer" /\ resp'.status = 200 /\ ~resp'.correct) =>
        LET before == questions[resp'.qid]
            after == questions'[resp'.qid]
        IN  /\ after.correct_streak = 0
            /\ after.max_streak = before.max_streak
            /\ after.next_review = (IF before.next_review = <<>> THEN <<now'>>
                                    ELSE before.next_review)]_vars

\* An incorrect answer on a question with a streak behind it and a review
\* scheduled: the streak is 0, max_streak stands, and next_review is not the
\* time of the answer.
C4_IncorrectOnScheduled ==
    /\ resp.op = "answer" /\ resp.status = 200 /\ ~resp.correct
    /\ questions[resp.qid].correct_streak = 0
    /\ questions[resp.qid].max_streak > 0
    /\ questions[resp.qid].last_reviewed = <<now>>
    /\ questions[resp.qid].next_review # <<>>
    /\ questions[resp.qid].next_review # <<now>>

\* C5 (SpecMastery): every question's mastery is at most 5.0.
C5_MasteryAtMostFive ==
    \A i \in 1..Len(questions) : questions[i].mastery <= 5 * Scale

\* A confidence update that brought a question's mastery to 5.0.
C5_MasteryAtFive ==
    /\ resp.op = "confidence" /\ resp.status = 200
    /\ questions[resp.qid].mastery = 5 * Scale

\* C6 (SpecMastery): no answer and no confidence update lowers a question's
\* mastery, and mastery is never negative.
C6_MasteryNeverLowered ==
    [][\A i \in 1..Len(questions) :
          /\ questions'[i].mastery >= questions[i].mastery
          /\ questions'[i].mastery >= 0]_vars

\* C7 (SpecAnswers): every stored confidence is NULL, -1 or in 0..5, and a
\* request for a known question (with an answer text, or already answered
\* for a confidence update) succeeds whatever confidence it carries.
C7_ConfidenceClampedNotRejected ==
    /\ \A i \in 1..Len(questions) :
          questions[i].confidence \in {<<>>} \cup {<<c>> : c \in -1..5}
    /\ (resp.op = "answer" /\ resp.qid \in 1..Len(questions) /\ resp.answer # "")
          => resp.status = 200
    /\ (resp.op = "confidence" /\ resp.qid \in 1..Len(questions)
          /\ questions[resp.qid].is_correct # <<>>)
          => resp.status = 200

\* An answer sent with confidence 7 was accepted and 5 is stored.
C7_AboveRangeStoredAsFive ==
    /\ resp.op = "answer" /\ resp.status = 200
    /\ resp.raw_conf = <<7>>
    /\ questions[resp.qid].confidence = <<5>>

C9_TopicDifficultyInRange ==
    \A t \in Topics :
        quiz.topic_difficulty[t] # <<>> =>
            (quiz.topic_difficulty[t][1] >= 0 /\ quiz.topic_difficulty[t][1] <= 5 * Scale)

C12_AtMostThreeGeneratorRequests ==
    (resp.op = "get" /\ quiz.exists) => (resp.status = 200 /\ resp.requests <= 3)

\* A round answered after three generator requests that yielded no row.
C12_ThreeRequestsNothingAccepted ==
    /\ resp.op = "get" /\ resp.status = 200 /\ resp.practice
    /\ resp.requests = 3
    /\ resp.inserted = 0
    /\ resp.rows = <<>>

\* C13 (Spec): when a generator request of a practice round raised, or
\* fewer candidates than needed were accepted after all retries, get_quiz
\* still answers 200 with the rows that are due after the insertions it
\* made, fewer than original_count of them when the backfill fell short.
C13_ShortBackfillStillServesDueRows ==
    [][\A gens \in GenScripts :
        LET n == quiz.original_count
            d == Cardinality(DueIds(questions, now))
            short == resp'.inserted < n - d
            raisedSome == \E k \in 1..resp'.requests : gens[k].raised
            served == resp'.rows
        IN  (resp'.op = "get" /\ quiz.exists /\ resp'.practice /\ d < n
                /\ (raisedSome \/ short) /\ GetQuiz(gens)) =>
                /\ resp'.status = 200
                /\ {served[k] : k \in 1..Len(served)} = DueIds(questions', now')
                /\ Len(served) = d + resp'.inserted
                /\ short => Len(served) < n]_vars

\* A practice round of a quiz with original_count 2 that fell short after
\* three generator requests: it answers 200 with the one row that is due.
C13_ShortRoundOfOne ==
    /\ resp.op = "get" /\ resp.status = 200 /\ resp.practice
    /\ quiz.original_count = 2
    /\ resp.requests = 3
    /\ Len(resp.rows) = 1
    /\ resp.rows[1] \in DueIds(questions, now)

C15_NoStemStoredTwice ==
    \A i \in 1..Len(questions), j \in 1..Len(questions) :
        i # j => Lower(questions[i].question) # Lower(questions[j].question)

\* C16 (Spec): reset_quiz sets the quiz's score to 0 and changes nothing
\* else, neither a column of a quiz_questions row nor the quiz's
\* topic_difficulty or original_count; for an unknown quiz it answers 404 and
\* changes nothing.
C16_ResetClearsScoreOnly ==
    [][(resp'.op = "reset") =>
        /\ questions' = questions
        /\ topicRow' = topicRow
        /\ now' = now
        /\ IF quiz.exists
           THEN /\ resp'.status = 204
                /\ quiz'.score = 0
                /\ [quiz' EXCEPT !.score = quiz.score] = quiz
           ELSE /\ resp'.status = 404
                /\ quiz' = quiz]_vars

\* A reset of a quiz with a correctly answered, scheduled question: the
\* score is 0 and the answer, its flag, counters and schedule stand.
C16_ResetAfterCorrectAnswer ==
    /\ resp.op = "reset" /\ resp.status = 204
    /\ quiz.score = 0
    /\ \E i \in 1..Len(questions) :
          /\ questions[i].user_answer # ""
          /\ questions[i].is_correct = <<TRUE>>
          /\ questions[i].times_correct > 0
          /\ questions[i].correct_streak > 0
          /\ questions[i].next_review # <<>>

\* C17 (SpecNormalize): the normalizer trims the options of a raw item and
\* drops the empty ones; of 4 or more it keeps the first 4 in order, to
\* exactly 3 it appends "None of the above", and with fewer than 3 it emits
\* no item; <<"A", "B", "C">> gives <<"A", "B", "C", "None of the above">>.
C17_OptionsTruncatedOrPadded ==
    \A raw \in {modelReply.items[k] : k \in 1..Len(modelReply.items)}
               \cup {modelReply.retry[k] : k \in 1..Len(modelReply.retry)} :
        LET Kept(o) == o \notin {"", " "}
            kept == SelectSeq(raw.options, Kept)
            trimmed == [i \in 1..Len(kept) |-> IF kept[i] = " A " THEN "A" ELSE kept[i]]
        IN  /\ Len(trimmed) >= 4 =>
                  ResolveOptions(raw.options) = <<SubSeq(trimmed, 1, 4)>>
            /\ Len(trimmed) = 3 =>
                  ResolveOptions(raw.options) = <<trimmed \o <<"None of the above">> >>
            /\ Len(trimmed) < 3 =>
                  /\ ResolveOptions(raw.options) = <<>>
                  /\ CleanItem(raw, TRUE) = <<>>
            /\ raw.options = <<"A", "B", "C">> =>
                  ResolveOptions(raw.options) = << <<"A", "B", "C", "None of the above">> >>

\* A quiz created from an answer whose first item has the options
\* <<"A", "B", "C">>: its first row holds them and "None of the above".
C17_ThreeOptionsPadded ==
    /\ resp.op = "create" /\ resp.status = 200
    /\ modelReply.items[1].options = <<"A", "B", "C">>
    /\ questions[1].options = <<"A", "B", "C", "None of the above">>

\* C18 (SpecNormalize): every stored row comes from an item with a stem
\* that is not empty, exactly 4 options, none of them empty and no two of
\* them equal, and a correct answer that is one of them.
C18_StoredItemsWellFormed ==
    \A i \in 1..Len(questions) :
        /\ questions[i].question # <<>>
        /\ Len(questions[i].options) = 4
        /\ \A k \in 1..4 : questions[i].options[k] # ""
        /\ \A k \in 1..4, l \in 1..4 :
              k # l => questions[i].options[k] # questions[i].options[l]
        /\ \E k \in 1..4 : questions[i].correct_answer = questions[i].options[k]

\* C19 (SpecConcurrent): once a request has recorded the answer, the answer
\* and its correctness flag are stored when the request has ended, whatever
\* failed after the recording.
C19_RecordedAnswerKept ==
    \A c \in CallIds :
        calls[c].pc = "done" =>
            /\ questions[calls[c].qid].user_answer = calls[c].user_answer
            /\ questions[calls[c].qid].is_correct = Some(calls[c].is_correct)

\* C20 (SpecConcurrent): when two requests for different questions of the
\* quiz have both been committed, the score and the topic_difficulty map are
\* what one of the two serial orders of the requests gives.
C20_ConcurrentAnswersSerializable ==
    (\A c \in CallIds : calls[c].pc = "done" /\ calls[c].status = 200 /\ ~calls[c].aborted)
        => LET fresh == [score |-> 0, topic_difficulty |-> [t \in Topics |-> None]]
               After(q, c) ==
                   [score |-> IF ScoreIncremented(calls[c].is_correct, calls[c].prev.is_correct)
                              THEN q.score + 1 ELSE q.score,
                    topic_difficulty |->
                        IF calls[c].is_correct THEN q.topic_difficulty
                        ELSE DifficultyAfterIncorrect(q.topic_difficulty, calls[c].prev.topic)]
               now_set == [score |-> quiz.score, topic_difficulty |-> quiz.topic_difficulty]
           IN  now_set \in {After(After(fresh, 1), 2), After(After(fresh, 2), 1)}

\* C21 (SpecSameItem): when two requests for the same question have both
\* been committed, the row's times_seen has grown by 2, its times_correct
\* by the number of correct answers, its streaks are those of one of the two
\* serial orders of the requests, and the score went up at most once.
C21_SameItemAnswersSerializable ==
    (\A c \in CallIds : calls[c].pc = "done" /\ calls[c].status = 200)
        => LET row == questions[calls[1].qid]
               Serial(r, c) ==
                   IF calls[c].is_correct THEN CorrectUpdate(r, now)
                   ELSE IncorrectUpdate(r, now)
               fresh == NewRow(row.question_number,
                               [question |-> row.question, options |-> row.options,
                                correctIndex |-> IndexOf(row.options, row.correct_answer) - 1,
                                topic |-> row.topic], None, None)
               orders == {Serial(Serial(fresh, 1), 2), Serial(Serial(fresh, 2), 1)}
           IN  /\ row.times_seen = 2
               /\ row.times_correct = Cardinality({c \in CallIds : calls[c].is_correct})
               /\ \E o \in orders : /\ row.correct_streak = o.correct_streak
                                    /\ row.max_streak = o.max_streak
               /\ quiz.score <= 1

\* C22 (Spec): a get_quiz that directly follows a get_quiz of the same quiz
\* (no answer, confidence, reset or clock step in between) serves the same
\* mode and the same rows and inserts no row; checked here for a first
\* get_quiz that served a full round of original_count rows, and with the
\* rows compared without regard to their order.
C22_SecondGetSameRound ==
    [][(resp.op = "get" /\ resp.status = 200 /\ resp'.op = "get"
            /\ Len(resp.rows) = quiz.original_count) =>
        /\ resp'.practice = resp.practice
        /\ {resp'.rows[k] : k \in 1..Len(resp'.rows)}
               = {resp.rows[k] : k \in 1..Len(resp.rows)}
        /\ resp'.inserted = 0]_vars

\* C23 (SpecNormalize): for a quiz created from an answer of one raw item
\* with a stem and at least 3 options, the correct option is the one named
\* by the first of correctIndex, answerIndex, answer, correct and
\* correctOption that yields an index in 0..3, and the item is dropped (the
\* request fails) only when none of them does.
C23_FirstIndexInRangeUsed ==
    (resp.op = "create" /\ Len(modelReply.items) = 1 /\ modelReply.retry = <<>>) =>
        LET q == modelReply.items[1]
            resolved == ResolveOptions(q.options)
        IN  (~IsNull(resolved) /\ StripStem(q.question) # <<>>) =>
                LET options == resolved[1]
                    attempts == << q.correctIndex, q.answerIndex,
                                   ToIndexFromAnswer(q.answer, options),
                                   ToIndexFromAnswer(q.correct, options),
                                   ToIndexFromAnswer(q.correctOption, options) >>
                    good == {k \in 1..5 : /\ ~IsNull(attempts[k])
                                          /\ attempts[k][1] \in 0..3}
                    first == CHOOSE k \in good : \A j \in good : k <= j
                IN  IF good = {} THEN resp.status = 500
                    ELSE /\ resp.status = 200
                         /\ questions # <<>> =>
                                questions[1].correct_answer
                                    = SanitizeKatex(options[attempts[first][1] + 1])

\* C24 (SpecAnswers): an incorrect answer to a question with a topic lowers
\* the topic's entry of topic_difficulty by 0.2 from its value, a missing
\* entry counting as 1.0; an incorrect answer to a question without a topic
\* and a correct answer leave the map as it is.
C24_IncorrectLowersFromDefaultOne ==
    [][(resp'.op = "answer" /\ resp'.status = 200) =>
        LET topic == questions[resp'.qid].topic
            old == quiz.topic_difficulty
        IN  IF resp'.correct \/ topic = ""
            THEN quiz'.topic_difficulty = old
            ELSE quiz'.topic_difficulty =
                     [old EXCEPT ![topic] =
                         Some((IF IsNull(old[topic]) THEN Scale ELSE old[topic][1])
                                  - Scale \div 5)]]_vars

\* C25 (SpecAnswers): a confidence request with sample c for a question
\* seen n times stores c itself when n <= 1 or when the stored confidence is
\* missing or the sentinel -1, and else the integer nearest to
\* ((n - 1) * A + c) / n clamped to [0, 5], A being the stored confidence
\* (a tie may be rounded either way).
C25_ConfidenceRunningAverage ==
    [][(resp'.op = "confidence" /\ resp'.status = 200 /\ ~IsNull(resp'.raw_conf)) =>
        LET c == ParseConfidence(resp'.raw_conf)[1]
            n == questions[resp'.qid].times_seen
            stored == questions[resp'.qid].confidence
            after == questions'[resp'.qid].confidence
        IN  IF n <= 1 \/ IsNull(stored) \/ stored = Some(-1)
            THEN after = Some(c)
            ELSE LET num == Min(Max((n - 1) * stored[1] + c, 0), 5 * n)
                 IN  /\ ~IsNull(after)
                     /\ 2 * (after[1] * n - num) <= n
                     /\ 2 * (num - after[1] * n) <= n]_vars

\* C26 (Spec): every row a practice-mode get_quiz returns has next_review
\* set and not after NOW(); the rows come by next_review ascending, rows of
\* equal next_review by confidence ascending (a row without confidence
\* last); when more rows are due than original_count, the rows returned are
\* the first original_count of that order.
C26_PracticeRoundDueAndOrdered ==
    (resp.op = "get" /\ resp.status = 200 /\ resp.practice) =>
        LET rs == resp.rows
            due == {i \in 1..Len(questions) :
                       /\ questions[i].next_review # <<>>
                       /\ questions[i].next_review[1] <= now}
            Key(i) == IF questions[i].confidence = <<>> THEN 999
                      ELSE questions[i].confidence[1]
            Before(i, j) ==
                \/ questions[i].next_review[1] < questions[j].next_review[1]
                \/ /\ questions[i].next_review[1] = questions[j].next_review[1]
                   /\ Key(i) <= Key(j)
        IN  /\ \A k \in 1..Len(rs) : rs[k] \in due
            /\ \A k \in 1..Len(rs), l \in 1..Len(rs) :
                  k < l => (rs[k] # rs[l] /\ Before(rs[k], rs[l]))
            /\ Len(rs) = Min(Cardinality(due), quiz.original_count)
            /\ \A u \in due \ {rs[k] : k \in 1..Len(rs)} :
                  \A k \in 1..Len(rs) : Before(rs[k], u)

\* A practice round of two rows due at the same time, the one with the
\* lower confidence first.
C26_TieBrokenByConfidence ==
    /\ resp.op = "get" /\ resp.status = 200 /\ resp.practice
    /\ Len(resp.rows) = 2
    /\ questions[resp.rows[1]].next_review = questions[resp.rows[2]].next_review
    /\ questions[resp.rows[1]].confidence # <<>>
    /\ questions[resp.rows[2]].confidence # <<>>
    /\ questions[resp.rows[1]].confidence[1] < questions[resp.rows[2]].confidence[1]

\* C27 (Spec): every row a get_quiz inserts has next_review equal to the
\* quiz's created_at, and, when the rows stored before carry topics, a
\* topic that is one of these (the first that occurs in its stem, or else
\* the one chosen round-robin).
C27_InsertedRowDueWithListedTopic ==
    [][(resp'.op = "get" /\ resp'.status = 200) =>
        LET topic_list == {questions[j].topic : j \in 1..Len(questions)} \ {""}
        IN  \A i \in (Len(questions) + 1)..Len(questions') :
                /\ questions'[i].next_review = Some(quiz.created_at)
                /\ topic_list # {} => questions'[i].topic \in topic_list]_vars

\* C28 (Spec), as the code has it: a row inserted by create_quiz has no
\* next_review and a row inserted by a get_quiz has next_review = the quiz's
\* created_at; only an accepted answer to a row sets the next_review of a
\* row that had none, every accepted answer leaves next_review set, and no
\* request clears a next_review that is set.
C28_ScheduledStaysScheduled ==
    [][\A i \in 1..Len(questions') :
        IF i > Len(questions)
        THEN /\ resp'.op \in {"create", "get"}
             /\ resp'.op = "create" => questions'[i].next_review = None
             /\ resp'.op = "get" => questions'[i].next_review = Some(quiz.created_at)
        ELSE /\ questions[i].next_review # None => questions'[i].next_review # None
             /\ (questions[i].next_review = None /\ questions'[i].next_review # None)
                    => (resp'.op = "answer" /\ resp'.qid = i)
             /\ (resp'.op = "answer" /\ resp'.status = 200 /\ resp'.qid = i)
                    => questions'[i].next_review # None]_vars

\* A round that inserted a row, scheduled though never answered, into a
\* quiz whose first row kept its schedule.
C28_BackfilledRowScheduledUnanswered ==
    /\ resp.op = "get" /\ resp.status = 200 /\ resp.inserted > 0
    /\ questions[1].next_review # None
    /\ questions[Len(questions)].times_seen = 0
    /\ questions[Len(questions)].next_review = Some(quiz.created_at)

\* C28 as stated: every row is without next_review until its first
\* accepted answer, whichever request inserted it; the rest as above.
C28_UnscheduledUntilFirstAnswer ==
    [][\A i \in 1..Len(questions') :
        IF i > Len(questions)
        THEN questions'[i].next_review = None
        ELSE /\ questions[i].next_review # None => questions'[i].next_review # None
             /\ (questions[i].next_review = None /\ questions'[i].next_review # None)
                    => (resp'.op = "answer" /\ resp'.qid = i)
             /\ (resp'.op = "answer" /\ resp'.status = 200 /\ resp'.qid = i)
                    => questions'[i].next_review # None]_vars

\* C29 (SpecAnswers): after every request each row has
\* 0 <= correct_streak <= max_streak <= times_correct <= times_seen and
\* option counts that add up to at most times_seen; times_seen counts the
\* accepted answers to the row: an accepted answer raises it by 1 (also
\* when the text matches no option, which raises no option count) and no
\* other request changes it.
C29_CountersOrderedAndCounted ==
    [][\A i \in 1..Len(questions') :
        \A row \in {questions'[i]} :
            /\ 0 <= row.correct_streak
            /\ row.correct_streak <= row.max_streak
            /\ row.max_streak <= row.times_correct
            /\ row.times_correct <= row.times_seen
            /\ \A counts \in {row.option_counts} :
                  /\ Len(counts) \in {0, 4}
                  /\ Len(counts) = 4 =>
                        /\ \A k \in 1..4 : counts[k] >= 0
                        /\ counts[1] + counts[2] + counts[3] + counts[4] <= row.times_seen
            /\ IF i > Len(questions) THEN row.times_seen = 0
               ELSE IF resp'.op = "answer" /\ resp'.status = 200 /\ resp'.qid = i
               THEN /\ row.times_seen = questions[i].times_seen + 1
                    /\ IndexOf(row.options, resp'.answer) = 0
                          => row.option_counts = questions[i].option_counts
               ELSE row.times_seen = questions[i].times_seen]_vars

\* Two correct answers and then a text that matches no option: seen 3
\* times, 2 option selections counted, streak 0 after a longest streak of 2.
C29_UnmatchedTextSeenNotCounted ==
    /\ resp.op = "answer" /\ resp.status = 200 /\ resp.answer = "Z"
    /\ questions[1].times_seen = 3
    /\ questions[1].times_correct = 2
    /\ questions[1].max_streak = 2
    /\ questions[1].correct_streak = 0
    /\ questions[1].option_counts = <<2, 0, 0, 0>>

\* C30 (SpecRounds): when two get_quiz requests that selected the same
\* rows of a complete quiz and both missed k > 0 due rows have ended, both
\* answered 200, at most k rows were inserted in all, no two rows have the
\* same question number, and no row inserted by one request has a stem
\* equal or similar (Jaccard >= 0.5) to one inserted by the other.
C30_ConcurrentRoundsInsertOnce ==
    (/\ \A c \in CallIds : rounds[c].pc = "done"
     /\ rounds[1].seen = rounds[2].seen
     /\ rounds[1].need = rounds[2].need) =>
        LET Stored(c) == IF rounds[c].aborted THEN <<>> ELSE rounds[c].accepted
        IN  /\ \A c \in CallIds : rounds[c].status = 200
            /\ Len(questions) - Len(rounds[1].seen) <= rounds[1].need
            /\ \A i \in 1..Len(questions), j \in 1..Len(questions) :
                  i # j => questions[i].question_number # questions[j].question_number
            /\ \A i \in 1..Len(Stored(1)), j \in 1..Len(Stored(2)) :
                  /\ Lower(Stored(1)[i].question) # Lower(Stored(2)[j].question)
                  /\ ~Similar(NormTokens(Stored(1)[i].question),
                              NormTokens(Stored(2)[j].question))

====
